---- MODULE Spec2Model ----
(***************************************************************************)
(* FARFS (src/farfs.c): a read-only FUSE filesystem over a memory-mapped   *)
(* FAR archive.  The archive image is modelled byte for byte; entries are  *)
(* addressed by their byte offset in the image, the dummy root lives in    *)
(* static storage outside the image.  The FUSE handlers are the actions.   *)
(***************************************************************************)
EXTENDS Integers, Sequences, FiniteSets, TLC

VARIABLES
  host,        \* byte order the binary was built for: "little" or "big"
  far_mapping, \* the mapped archive image, a sequence of bytes (offset 0 first)
  dummy_root,  \* the static FARentry_t dummy_root (fields hold native words)
  pc,          \* "main", "serving", "replied", "exit_failure", "aborted", "crashed"
  fh,          \* the dispatcher's open handle (fi->fh): none, a file or a far_dir_t
  session,     \* the consumer's bookkeeping of one directory listing
  reply        \* the request just served and what the handler returned

vars == <<host, far_mapping, dummy_root, pc, fh, session, reply>>

(***************************************************************************)
(* Bounds of the model.                                                    *)
(***************************************************************************)
MaxPathLen == 6
\* read offsets 0..MaxOffset and lengths 0..MaxSize, besides the extreme values
MaxOffset == 5
MaxSize == 4

(***************************************************************************)
(* Bytes, words and 64-bit quantities.  A value of w bytes is the sequence *)
(* of its base-256 digits, least significant first, so that the widths of  *)
(* uint32_t, off_t and size_t are kept exactly.                            *)
(***************************************************************************)
Chr == [slash |-> 47, a |-> 97, A |-> 65, x |-> 120, y |-> 121, z |-> 122,
        F |-> 70, R |-> 82, dot |-> 46, nul |-> 0]

RECURSIVE Digits(_, _)
Digits(n, w) == IF w = 0 THEN <<>> ELSE <<n % 256>> \o Digits(n \div 256, w - 1)

U32(n) == Digits(n, 4)
U64(n) == Digits(n, 8)

RECURSIVE ToNat(_)
ToNat(v) == IF v = <<>> THEN 0 ELSE v[1] + 256 * ToNat(Tail(v))

Reverse(s) == [i \in 1..Len(s) |-> s[Len(s) + 1 - i]]

RECURSIVE AddC(_, _, _)
AddC(u, v, c) ==
  IF u = <<>> THEN <<>>
  ELSE <<(u[1] + v[1] + c) % 256>> \o AddC(Tail(u), Tail(v), (u[1] + v[1] + c) \div 256)

\* u + v modulo 256^Len(u)
AddW(u, v) == AddC(u, v, 0)

Compl(u) == [i \in 1..Len(u) |-> 255 - u[i]]

\* -u and u - v modulo 256^Len(u)
NegW(u)    == AddW(Compl(u), Digits(1, Len(u)))
SubW(u, v) == AddW(u, NegW(v))

RECURSIVE LtU(_, _)
\* unsigned u < v, equal widths
LtU(u, v) ==
  IF u = <<>> THEN FALSE
  ELSE LET n == Len(u) IN
       IF u[n] # v[n] THEN u[n] < v[n]
       ELSE LtU(SubSeq(u, 1, n - 1), SubSeq(v, 1, n - 1))

IsNeg(u) == u[Len(u)] >= 128

\* signed u < v, equal widths (two's complement)
LtS(u, v) ==
  IF IsNeg(u) # IsNeg(v) THEN IsNeg(u) ELSE LtU(u, v)

\* conversion of a 64-bit value to int: the low 32 bits, two's complement
ToInt(u) ==
  LET lo == SubSeq(u, 1, 4) IN
  IF IsNeg(lo) THEN 0 - ToNat(NegW(lo)) ELSE ToNat(lo)

\* __builtin_bswap32
bswap32(w) == Reverse(w)

le32_to_cpu(w) == IF host = "little" THEN w ELSE bswap32(w)


(***************************************************************************)
(* Program constants.                                                      *)
(***************************************************************************)
FAR_FILE_TYPE == 0
FAR_DIR_TYPE  == 1
\* sizeof(FARentry_t): four uint32_t
EntrySize     == 16
\* offsetof(FARheader_t, rootdir): five uint32_t
RootdirOff    == 20
ENOENT  == 2
ENOMEM  == 12
EACCES  == 13
ENOTDIR == 20
EINVAL  == 22
EROFS   == 30

\* MAGIC('F', 'A', 'R', '\0') as a 32-bit value
FAR_MAGIC == <<Chr.F, Chr.A, Chr.R, Chr.nul>>

FAR_DIR_MODE  == {"S_IRUSR", "S_IXUSR", "S_IRGRP", "S_IXGRP", "S_IROTH", "S_IXOTH", "S_IFDIR"}
FAR_FILE_MODE == {"S_IRUSR", "S_IRGRP", "S_IROTH", "S_IFREG"}

(***************************************************************************)
(* Archive images.  An archive is described by its directory tables        *)
(* (table 1 is the root's child array); Image lays it out as the binary    *)
(* format prescribes: header, entry records, names, file data, every       *)
(* multi-byte field little-endian.                                         *)
(***************************************************************************)
File(name, flags, data) == [name |-> name, flags |-> flags, dir |-> 0, data |-> data]
Dir(name, flags, table) == [name |-> name, flags |-> flags, dir |-> table, data |-> <<>>]

RECURSIVE Flat(_)
Flat(ss) == IF ss = <<>> THEN <<>> ELSE Head(ss) \o Flat(Tail(ss))

Kids(a) == Flat(a.dirs)

TableOff(a, t) == RootdirOff + EntrySize * Len(Flat(SubSeq(a.dirs, 1, t - 1)))

NameBlob(kids) == Flat([j \in 1..Len(kids) |-> kids[j].name \o <<Chr.nul>>])
DataBlob(kids) == Flat([j \in 1..Len(kids) |-> kids[j].data])

NamesOff(a) == RootdirOff + EntrySize * Len(Kids(a))
DataOff(a)  == NamesOff(a) + Len(NameBlob(Kids(a)))

\* the 16-byte FARentry_t of the j-th record of the archive
EntryRecord(a, j) ==
  LET k == Kids(a)[j] IN
     k.flags
  \o U32(NamesOff(a) + Len(NameBlob(SubSeq(Kids(a), 1, j - 1))))
  \o U32(IF k.dir = 0 THEN DataOff(a) + Len(DataBlob(SubSeq(Kids(a), 1, j - 1)))
                      ELSE TableOff(a, k.dir))
  \o U32(IF k.dir = 0 THEN Len(k.data) ELSE Len(a.dirs[k.dir]))

\* the FARheader_t without its trailing array
Header(a) ==
  a.magic \o a.version \o U32(Len(Kids(a))) \o U32(Len(NameBlob(Kids(a))))
          \o U32(Len(a.dirs[1]))

Image(a) ==
     Header(a)
  \o Flat([j \in 1..Len(Kids(a)) |-> EntryRecord(a, j)])
  \o NameBlob(Kids(a))
  \o DataBlob(Kids(a))

tFile == U32(FAR_FILE_TYPE)
tDir  == U32(FAR_DIR_TYPE)
\* the upper three bytes of flags are unused: archives may carry anything there
tFileHi == <<FAR_FILE_TYPE, 1, 0, 1>>
tDirHi  == <<FAR_DIR_TYPE, 1, 0, 0>>

\* /aa/ , /a/ , /A (2 bytes) , a second "a" , /Aa (empty file)
\* /a/A/ holds {dir, file, dir}; duplicate names are shadowed by the first
Tree ==
  << << Dir(<<Chr.a, Chr.a>>, tDir, 2),
        Dir(<<Chr.a>>, tDirHi, 3),
        File(<<Chr.A>>, tFile, <<Chr.x, Chr.y>>),
        File(<<Chr.a>>, tFile, <<Chr.x, Chr.y, Chr.z>>),
        File(<<Chr.A, Chr.a>>, tFile, <<>>) >>,
     << File(<<Chr.a>>, tFile, <<Chr.z>>) >>,
     << Dir(<<Chr.A>>, tDirHi, 4),
        File(<<Chr.a>>, tFileHi, <<Chr.x, Chr.y, Chr.z>>),
        File(<<Chr.A>>, tFile, <<>>) >>,
     << Dir(<<Chr.a>>, tDirHi, 5),
        File(<<Chr.A>>, tFile, <<Chr.y>>),
        Dir(<<Chr.a, Chr.a>>, tDir, 6) >>,
     << File(<<Chr.a>>, tFile, <<Chr.x>>) >>,
     << >> >>

\* one file of four bytes and one empty subdirectory
Small ==
  << << File(<<Chr.a>>, tFile, <<Chr.x, Chr.y, Chr.z, Chr.x>>),
        Dir(<<Chr.a, Chr.a>>, tDir, 2) >>,
     << >> >>

Archives ==
  { [magic |-> FAR_MAGIC, version |-> U32(0), dirs |-> Tree],
    [magic |-> FAR_MAGIC, version |-> U32(0), dirs |-> Small],
    [magic |-> FAR_MAGIC, version |-> U32(0), dirs |-> << <<>> >>],
    [magic |-> <<Chr.R, Chr.A, Chr.F, Chr.nul>>, version |-> U32(0), dirs |-> Small],
    [magic |-> FAR_MAGIC, version |-> U32(1), dirs |-> Small] }

Images == { Image(a) : a \in Archives }

(***************************************************************************)
(* Memory.  A pointer to an entry is the object it points into and the     *)
(* byte offset in it.                                                      *)
(***************************************************************************)
NULL == [obj |-> "null", off |-> 0]
root == [obj |-> "dummy_root", off |-> 0]
ImgPtr(off) == [obj |-> "image", off |-> off]

\* a native 32-bit load of the four bytes at an image offset
LoadWord(off) ==
  LET m == SubSeq(far_mapping, off + 1, off + 4) IN
  IF host = "little" THEN m ELSE Reverse(m)

FieldOff == [flags |-> 0, nameoff |-> 4, dataoff |-> 8, size |-> 12]

\* entry->f
Field(entry, f) ==
  IF entry = root THEN dummy_root[f] ELSE LoadWord(entry.off + FieldOff[f])

\* header->f
HeaderField == [magic |-> 0, version |-> 4, nentries |-> 8, namesize |-> 12, rootentries |-> 16]

RECURSIVE CStr(_)
\* the NUL-terminated string at an image offset
CStr(off) ==
  IF far_mapping[off + 1] = Chr.nul THEN <<>>
  ELSE <<far_mapping[off + 1]>> \o CStr(off + 1)

far_type(entry)     == le32_to_cpu(Field(entry, "flags"))[1]
far_name(entry)     == ToNat(le32_to_cpu(Field(entry, "nameoff")))
far_data(entry)     == ToNat(le32_to_cpu(Field(entry, "dataoff")))
far_datasize(entry) == ToNat(le32_to_cpu(Field(entry, "size")))

\* abort() when the entry is no directory, else the address of its child array
far_children(entry) ==
  IF far_type(entry) # FAR_DIR_TYPE
    THEN [abort |-> TRUE, base |-> 0]
    ELSE [abort |-> FALSE, base |-> far_data(entry)]

\* children + i
Child(base, i) == ImgPtr(base + EntrySize * i)


(***************************************************************************)
(* libc string functions.  A path is the sequence of its characters (the   *)
(* terminating NUL is implicit); a char* into it is a 1-based position, 0  *)
(* is the null pointer.  Names live in the image.                          *)
(***************************************************************************)
\* strchr(path, c): the first position at or after path holding c, or a null pointer
strchr(s, path, c) ==
  IF \E i \in path..Len(s) : s[i] = c
    THEN CHOOSE i \in path..Len(s) : s[i] = c /\ \A j \in path..(i - 1) : s[j] # c
    ELSE 0

\* strlen(name), name an image offset
strlen(name) == Len(CStr(name))

\* memcmp(path, name, n) == 0
memcmp0(s, path, name, n) ==
  \A i \in 0..(n - 1) : s[path + i] = far_mapping[name + i + 1]

\* strcmp(path, name) == 0
strcmp0(s, path, name) == SubSeq(s, path, Len(s)) = CStr(name)

(***************************************************************************)
(* far_fill_stat                                                           *)
(***************************************************************************)
\* the number of entries of type directory among children[0..n-1]
RECURSIVE CountDirs(_, _)
CountDirs(base, n) ==
  IF n = 0 THEN 0
  ELSE CountDirs(base, n - 1)
       + (IF far_type(Child(base, n - 1)) = FAR_DIR_TYPE THEN 1 ELSE 0)

\* st_ino with the difference taken in bytes, not in FARentry_t records
st_ino_bytes(entry) ==
  IF entry = root THEN 1 ELSE (entry.off - RootdirOff) + 2

\* st_ino: entry - header->rootdir counts FARentry_t records (the records of the
\* archives here lie at multiples of 16 bytes from rootdir, so the difference is exact)
st_ino(entry) ==
  IF entry = root THEN 1 ELSE ((entry.off - RootdirOff) \div EntrySize) + 2

\* st_nlink with every child counted, not only the directories
st_nlink_all(entry) ==
  IF far_type(entry) = FAR_DIR_TYPE THEN 2 + far_datasize(entry) ELSE 1

st_nlink(entry) ==
  IF far_type(entry) = FAR_DIR_TYPE
    THEN 2 + CountDirs(far_children(entry).base, far_datasize(entry))
    ELSE 1

st_size(entry) ==
  IF far_type(entry) = FAR_DIR_TYPE
    THEN far_datasize(entry) * EntrySize
    ELSE far_datasize(entry)

st_mode(entry) ==
  IF far_type(entry) = FAR_DIR_TYPE THEN FAR_DIR_MODE ELSE FAR_FILE_MODE

far_fill_stat(entry) ==
  [ st_dev     |-> 0,
    st_ino     |-> st_ino(entry),
    st_nlink   |-> st_nlink(entry),
    st_rdev    |-> 0,
    st_size    |-> st_size(entry),
    st_blksize |-> 4096,
    st_blocks  |-> (st_size(entry) + 4096 - 1) \div 512,
    st_mode    |-> st_mode(entry) ]

(***************************************************************************)
(* far_traverse_path.  The result is the returned entry (NULL when none),  *)
(* the value left in *parent, and whether far_children called abort().     *)
(***************************************************************************)
Aborted == [abort |-> TRUE, entry |-> NULL, parent |-> NULL]

\* ComponentMatches without the strlen test: a longer name matches its prefix
ComponentMatchesPrefix(s, path, p, name) == memcmp0(s, path, name, p - path)

\* the test on an intermediate component, path..p-1
ComponentMatches(s, path, p, name) ==
  strlen(name) = p - path /\ memcmp0(s, path, name, p - path)

\* the test on the final component
FinalMatches(s, path, name) == strcmp0(s, path, name)

RECURSIVE ScanIntermediate(_, _, _, _, _, _)
\* the for loop over the children of dir, from child i on
ScanIntermediate(s, path, p, dir, i, num_subdirs) ==
  IF ~(i < num_subdirs) THEN [abort |-> FALSE, found |-> FALSE, entry |-> NULL]
  ELSE IF far_children(dir).abort THEN [abort |-> TRUE, found |-> FALSE, entry |-> NULL]
  ELSE LET entry == Child(far_children(dir).base, i) IN
       IF ComponentMatches(s, path, p, far_name(entry))
         THEN [abort |-> FALSE, found |-> TRUE, entry |-> entry]
         ELSE ScanIntermediate(s, path, p, dir, i + 1, num_subdirs)

RECURSIVE ScanFinal(_, _, _, _, _)
ScanFinal(s, path, dir, i, num_subdirs) ==
  IF ~(i < num_subdirs) THEN [abort |-> FALSE, entry |-> NULL]
  ELSE IF far_children(dir).abort THEN [abort |-> TRUE, entry |-> NULL]
  ELSE LET entry == Child(far_children(dir).base, i) IN
       IF FinalMatches(s, path, far_name(entry))
         THEN [abort |-> FALSE, entry |-> entry]
         ELSE ScanFinal(s, path, dir, i + 1, num_subdirs)

\* what the final loop returns, with the parent the walk has recorded
FinalComponent(s, path, dir, parent) ==
  LET r == ScanFinal(s, path, dir, 0, far_datasize(dir)) IN
  IF r.abort THEN Aborted
  ELSE [abort |-> FALSE, entry |-> r.entry, parent |-> parent]

\* one turn of the while loop: on a match descend, otherwise stay in dir
Descend(r, dir, parent) ==
  IF r.found THEN [dir |-> r.entry, parent |-> dir]
             ELSE [dir |-> dir, parent |-> parent]

RECURSIVE Intermediate(_, _, _, _, _)
\* the while loop over the intermediate components
Intermediate(s, path, p, dir, parent) ==
  IF p = 0 THEN FinalComponent(s, path, dir, parent)
  ELSE LET r == ScanIntermediate(s, path, p, dir, 0, far_datasize(dir)) IN
       IF r.abort THEN Aborted
       ELSE LET d == Descend(r, dir, parent) IN
            Intermediate(s, p + 1, strchr(s, p + 1, Chr.slash), d.dir, d.parent)

far_traverse_path(s) ==
  IF s = <<Chr.slash>> THEN [abort |-> FALSE, entry |-> root, parent |-> root]
  ELSE Intermediate(s, 2, strchr(s, 2, Chr.slash), root, root)


(***************************************************************************)
(* Requests of the dispatch layer.                                         *)
(***************************************************************************)
PathChars == {Chr.slash, Chr.a, Chr.A}

\* absolute paths of at most MaxPathLen characters
Paths ==
  { s \in UNION { [1..n -> PathChars] : n \in 1..MaxPathLen } : s[1] = Chr.slash }

OpenFlags == [acc : {"O_RDONLY", "O_WRONLY", "O_RDWR"}, creat : BOOLEAN]

NoHandle == [kind |-> "none", entry |-> NULL, parent |-> NULL]
NoSession == [acc |-> <<>>, next |-> 0, complete |-> FALSE, chunks |-> 0]
NoReply == [op |-> "none"]

\* far_children called abort() while the request was served
AbortReply(op, path) == [op |-> "abort", req |-> op, path |-> path]

(***************************************************************************)
(* main: validate the header and set the size of the dummy root.           *)
(***************************************************************************)
main ==
  /\ pc = "main"
  /\ IF le32_to_cpu(LoadWord(HeaderField.magic)) # FAR_MAGIC
       THEN /\ pc' = "exit_failure"
            /\ UNCHANGED dummy_root
     ELSE IF le32_to_cpu(LoadWord(HeaderField.version)) # U32(0)
       THEN /\ pc' = "exit_failure"
            /\ UNCHANGED dummy_root
     ELSE /\ pc' = "serving"
          /\ dummy_root' = [dummy_root EXCEPT !.size = LoadWord(HeaderField.rootentries)]
  /\ UNCHANGED <<host, far_mapping, fh, session, reply>>

\* fuse_main: the reply goes back and the loop takes the next request
fuse_main ==
  /\ pc = "replied"
  /\ pc' = "serving"
  /\ reply' = NoReply
  /\ UNCHANGED <<host, far_mapping, dummy_root, fh, session>>

(***************************************************************************)
(* far_getattr                                                             *)
(***************************************************************************)
\* r is what far_traverse_path(path, &parent) returned
GetattrResult(path, r) ==
  IF r.abort THEN AbortReply("getattr", path)
  ELSE IF r.entry = NULL
    THEN [op |-> "getattr", path |-> path, ret |-> 0 - ENOENT, entry |-> NULL]
    ELSE [op |-> "getattr", path |-> path, ret |-> 0, entry |-> r.entry,
          st |-> far_fill_stat(r.entry)]

far_getattr ==
  /\ pc = "serving"
  /\ \E path \in Paths :
       \E res \in {GetattrResult(path, far_traverse_path(path))} :
       /\ reply' = res
       /\ pc' = IF res.op = "abort" THEN "aborted" ELSE "replied"
  /\ UNCHANGED <<host, far_mapping, dummy_root, fh, session>>

(***************************************************************************)
(* far_open.  The dispatcher holds one handle at a time: it opens a file   *)
(* or a directory only while no directory handle is open.                  *)
(***************************************************************************)
\* OpenResult with the access mode tested before the result of the lookup
OpenResultModeFirst(path, flags, r) ==
  IF r.abort THEN AbortReply("open", path)
  ELSE IF flags.acc = "O_RDWR" \/ flags.acc = "O_WRONLY"
    THEN [op |-> "open", path |-> path, flags |-> flags, entry |-> r.entry, fh |-> NULL,
          ret |-> 0 - EACCES]
  ELSE IF r.entry = NULL
    THEN [op |-> "open", path |-> path, flags |-> flags, entry |-> NULL, fh |-> NULL,
          ret |-> IF flags.creat THEN 0 - EROFS ELSE 0 - ENOENT]
    ELSE [op |-> "open", path |-> path, flags |-> flags, entry |-> r.entry,
          fh |-> r.entry, ret |-> 0]

\* entry is what the lookup returned, fh what was stored in fi->fh (NULL: nothing)
OpenResult(path, flags, r) ==
  IF r.abort THEN AbortReply("open", path)
  ELSE IF r.entry = NULL
    THEN [op |-> "open", path |-> path, flags |-> flags, entry |-> NULL, fh |-> NULL,
          ret |-> IF flags.creat THEN 0 - EROFS ELSE 0 - ENOENT]
  ELSE IF flags.acc = "O_RDWR" \/ flags.acc = "O_WRONLY"
    THEN [op |-> "open", path |-> path, flags |-> flags, entry |-> r.entry, fh |-> NULL,
          ret |-> 0 - EACCES]
    ELSE [op |-> "open", path |-> path, flags |-> flags, entry |-> r.entry,
          fh |-> r.entry, ret |-> 0]

far_open ==
  /\ pc = "serving"
  /\ fh.kind # "dir"
  /\ \E path \in Paths :
       \E r \in {far_traverse_path(path)}, flags \in OpenFlags :
         \E res \in {OpenResult(path, flags, r)} :
         /\ reply' = res
         /\ pc' = IF res.op = "abort" THEN "aborted" ELSE "replied"
         /\ fh' = IF res.op = "open" /\ res.fh # NULL
                    THEN [kind |-> "file", entry |-> res.fh, parent |-> NULL]
                    ELSE fh
  /\ UNCHANGED <<host, far_mapping, dummy_root, session>>

(***************************************************************************)
(* far_opendir, far_dir_new, far_releasedir                                *)
(***************************************************************************)
\* malloc_ok: whether malloc in far_dir_new returned memory
far_dir_new(parent, entry, malloc_ok) ==
  IF malloc_ok THEN [kind |-> "dir", entry |-> entry, parent |-> parent]
               ELSE NoHandle

OpendirResult(path, malloc_ok, r) ==
  IF r.abort THEN AbortReply("opendir", path)
  ELSE IF r.entry = NULL
    THEN [op |-> "opendir", path |-> path, ret |-> 0 - ENOENT, dir |-> NoHandle]
  ELSE IF far_type(r.entry) # FAR_DIR_TYPE
    THEN [op |-> "opendir", path |-> path, ret |-> 0 - ENOTDIR, dir |-> NoHandle]
  ELSE LET dir == far_dir_new(r.parent, r.entry, malloc_ok) IN
       IF dir = NoHandle
         THEN [op |-> "opendir", path |-> path, ret |-> 0 - ENOMEM, dir |-> NoHandle]
         ELSE [op |-> "opendir", path |-> path, ret |-> 0, dir |-> dir]

far_opendir ==
  /\ pc = "serving"
  /\ fh.kind # "dir"
  /\ \E path \in Paths :
       \E r \in {far_traverse_path(path)}, malloc_ok \in BOOLEAN :
         \E res \in {OpendirResult(path, malloc_ok, r)} :
         /\ reply' = res
         /\ pc' = IF res.op = "abort" THEN "aborted" ELSE "replied"
         /\ fh' = IF res.op = "opendir" /\ res.ret = 0 THEN res.dir ELSE fh
         /\ session' = IF res.op = "opendir" /\ res.ret = 0 THEN NoSession ELSE session
  /\ UNCHANGED <<host, far_mapping, dummy_root>>

far_releasedir ==
  /\ pc = "serving"
  /\ fh.kind = "dir"
  /\ fh' = NoHandle
  /\ session' = NoSession
  /\ reply' = [op |-> "releasedir", ret |-> 0]
  /\ pc' = "replied"
  /\ UNCHANGED <<host, far_mapping, dummy_root>>


(***************************************************************************)
(* far_read.  offset is an off_t (signed, 64 bits), size a size_t          *)
(* (unsigned, 64 bits), far_datasize a uint32_t; the result is an int.     *)
(***************************************************************************)
INT64_MIN == <<0, 0, 0, 0, 0, 0, 0, 128>>
INT64_MAX == <<255, 255, 255, 255, 255, 255, 255, 127>>
SIZE_MAX  == <<255, 255, 255, 255, 255, 255, 255, 255>>

ReadOffsets == { U64(n) : n \in 0..MaxOffset } \cup { NegW(U64(1)), INT64_MIN, INT64_MAX }
ReadSizes   == { U64(n) : n \in 0..MaxSize } \cup { U64(10), NegW(U64(2)), SIZE_MAX }

\* the size after "if(offset + size > far_datasize(entry)) size = far_datasize(entry) - offset"
Truncate(offset, size, datasize) ==
  IF LtU(datasize, AddW(offset, size)) THEN SubW(datasize, offset) ELSE size

\* memcpy(buffer, far_data(entry) + offset, size): the bytes copied, and whether the
\* source range leaves the mapping
Memcpy(src, size) ==
  IF src <= Len(far_mapping) /\ ~LtU(U64(Len(far_mapping) - src), size)
    THEN [oob |-> FALSE, data |-> SubSeq(far_mapping, src + 1, src + ToNat(size))]
    ELSE [oob |-> TRUE, data |-> <<>>]

ReadResult(entry, offset, size) ==
  IF IsNeg(offset)
    THEN [op |-> "read", entry |-> entry, offset |-> offset, size |-> size,
          ret |-> 0 - EINVAL, loaded |-> FALSE, copied |-> FALSE]
  ELSE IF ~LtS(offset, U64(far_datasize(entry)))
    THEN [op |-> "read", entry |-> entry, offset |-> offset, size |-> size,
          ret |-> 0, loaded |-> TRUE, copied |-> FALSE]
  ELSE LET n   == Truncate(offset, size, U64(far_datasize(entry)))
           src == far_data(entry) + ToNat(offset)
           m   == Memcpy(src, n) IN
       [op |-> "read", entry |-> entry, offset |-> offset, size |-> size,
        ret |-> ToInt(n), loaded |-> TRUE, copied |-> TRUE,
        src |-> src, count |-> n, oob |-> m.oob, data |-> m.data]

\* a copy that leaves the mapping is undefined: the process faults or carries on
far_read ==
  /\ pc = "serving"
  /\ fh.kind = "file"
  /\ \E offset \in ReadOffsets, size \in ReadSizes :
       \E res \in {ReadResult(fh.entry, offset, size)} :
       /\ reply' = res
       /\ \E fault \in (IF res.copied /\ res.oob THEN BOOLEAN ELSE {FALSE}) :
            pc' = IF fault THEN "crashed" ELSE "replied"
  /\ UNCHANGED <<host, far_mapping, dummy_root, fh, session>>

(***************************************************************************)
(* far_readdir.  The filler takes cap entries and answers "full" (1) to    *)
(* the next one.  st is the run so far: the entries the filler took, the   *)
(* local variable offset, whether the filler answered full, and whether    *)
(* far_children aborted.                                                   *)
(***************************************************************************)
\* Fill with offset++ for ++offset: the entry's own cursor is passed as next-offset
FillPostIncrement(st, name, stat, cap) ==
  IF Len(st.items) < cap
    THEN [st EXCEPT !.items = Append(@, [name |-> name, st |-> stat, off |-> st.offset]),
                    !.offset = @ + 1]
    ELSE [st EXCEPT !.full = TRUE, !.offset = @ + 1]

\* filler(buffer, name, &st, ++offset)
Fill(st, name, stat, cap) ==
  IF Len(st.items) < cap
    THEN [st EXCEPT !.items = Append(@, [name |-> name, st |-> stat, off |-> st.offset + 1]),
                    !.offset = @ + 1]
    ELSE [st EXCEPT !.full = TRUE, !.offset = @ + 1]

RdDot(dir, st, cap) ==
  IF st.offset = 0 THEN Fill(st, <<Chr.dot>>, far_fill_stat(dir.entry), cap) ELSE st

RdDotDot(dir, st, cap) ==
  IF st.full THEN st
  ELSE IF st.offset = 1 THEN Fill(st, <<Chr.dot, Chr.dot>>, far_fill_stat(dir.parent), cap)
  ELSE st

RECURSIVE RdChildren(_, _, _, _)
RdChildren(dir, off, st, cap) ==
  IF st.full \/ st.abort THEN st
  ELSE IF ~(off - 2 < far_datasize(dir.entry)) THEN st
  ELSE IF off = st.offset
    THEN IF far_children(dir.entry).abort THEN [st EXCEPT !.abort = TRUE]
         ELSE LET child == Child(far_children(dir.entry).base, off - 2) IN
              RdChildren(dir, off + 1,
                         Fill(st, CStr(far_name(child)), far_fill_stat(child), cap), cap)
  ELSE RdChildren(dir, off + 1, st, cap)

ReaddirRun(dir, offset, cap) ==
  RdChildren(dir, 2,
             RdDotDot(dir,
                      RdDot(dir, [items |-> <<>>, offset |-> offset, full |-> FALSE,
                                  abort |-> FALSE], cap),
                      cap),
             cap)

\* the consumer resumes at the next-offset of the last entry it took; chunks counts
\* the calls that gave it entries
Resume(ses, offset, run) ==
  IF offset # ses.next \/ ses.complete THEN ses
  ELSE [acc      |-> ses.acc \o run.items,
        next     |-> IF run.items = <<>> THEN ses.next ELSE run.items[Len(run.items)].off,
        complete |-> ~run.full,
        chunks   |-> IF run.items = <<>> THEN ses.chunks ELSE ses.chunks + 1]

far_readdir ==
  /\ pc = "serving"
  /\ fh.kind = "dir"
  /\ \E offset \in 0..(far_datasize(fh.entry) + 3), cap \in 0..(far_datasize(fh.entry) + 2) :
       \E run \in {ReaddirRun(fh, offset, cap)} :
       IF run.abort
         THEN /\ reply' = AbortReply("readdir", <<>>)
              /\ pc' = "aborted"
              /\ UNCHANGED session
         ELSE /\ reply' = [op |-> "readdir", dir |-> fh, offset |-> offset, cap |-> cap,
                           items |-> run.items, full |-> run.full, ret |-> 0]
              /\ pc' = "replied"
              /\ session' = Resume(session, offset, run)
  /\ UNCHANGED <<host, far_mapping, dummy_root, fh>>

(***************************************************************************)
(* Specifications.                                                         *)
(***************************************************************************)
\* the static initializer of dummy_root: native values
InitOn(hosts) ==
  /\ host \in hosts
  /\ far_mapping \in Images
  /\ dummy_root = [flags |-> U32(FAR_DIR_TYPE), nameoff |-> U32(0),
                   dataoff |-> U32(RootdirOff), size |-> U32(0)]
  /\ pc = "main"
  /\ fh = NoHandle
  /\ session = NoSession
  /\ reply = NoReply

Init == InitOn({"little"})

InitHosts == InitOn({"little", "big"})

Next ==
  \/ main
  \/ fuse_main
  \/ far_getattr
  \/ far_open
  \/ far_opendir
  \/ far_releasedir
  \/ far_read
  \/ far_readdir

\* the build for a little-endian host
Spec == Init /\ [][Next]_vars

\* the builds for either byte order
SpecHosts == InitHosts /\ [][Next]_vars


(***************************************************************************)
(* The archive as the format defines it, read without the program's        *)
(* accessors: every field little-endian, names NUL-terminated, a           *)
(* directory's children the records data_offset, data_offset + 16, ...     *)
(***************************************************************************)
LE32(off) ==
  far_mapping[off + 1] + 256 * far_mapping[off + 2]
  + 65536 * far_mapping[off + 3] + 16777216 * far_mapping[off + 4]

RefIsDir(e) ==
  \/ e = root
  \/ e.obj = "image" /\ far_mapping[e.off + 1] = 1

RefSize(e) == IF e = root THEN LE32(16) ELSE LE32(e.off + 12)

RefDataOff(e) == IF e = root THEN 20 ELSE LE32(e.off + 8)

RefName(e) ==
  LET start == LE32(e.off + 4)
      stop  == CHOOSE i \in start..Len(far_mapping) :
                 /\ far_mapping[i + 1] = 0
                 /\ \A j \in start..(i - 1) : far_mapping[j + 1] # 0
  IN SubSeq(far_mapping, start + 1, stop)

\* the children of a directory, in stored order
RefKids(d) == [i \in 1..RefSize(d) |-> ImgPtr(RefDataOff(d) + 16 * (i - 1))]

\* the first child of d, in stored order, named comp; NULL when there is none
RefLookup(d, comp) ==
  LET hits == { i \in 1..RefSize(d) : RefName(RefKids(d)[i]) = comp } IN
  IF hits = {} THEN NULL
  ELSE RefKids(d)[CHOOSE i \in hits : \A j \in hits : i <= j]

RECURSIVE SplitSlash(_)
\* the components of a path without its leading slash
SplitSlash(t) ==
  IF \A i \in 1..Len(t) : t[i] # Chr.slash THEN <<t>>
  ELSE LET k == CHOOSE i \in 1..Len(t) :
                  t[i] = Chr.slash /\ \A j \in 1..(i - 1) : t[j] # Chr.slash
       IN <<SubSeq(t, 1, k - 1)>> \o SplitSlash(SubSeq(t, k + 1, Len(t)))

Components(path) == SplitSlash(Tail(path))

RECURSIVE RefWalk(_, _)
\* the entry the components lead to from directory d; NULL when a component names
\* no child, or when the walk would have to look inside a file
RefWalk(comps, d) ==
  IF comps = <<>> THEN d
  ELSE IF d = NULL \/ ~RefIsDir(d) THEN NULL
  ELSE RefWalk(Tail(comps), RefLookup(d, Head(comps)))

RefResolve(path) ==
  IF path = <<Chr.slash>> THEN root ELSE RefWalk(Components(path), root)

\* every non-final component names a child of the directory reached so far
WalkReachesFinalDir(path) ==
  \/ path = <<Chr.slash>>
  \/ LET c == Components(path)
         d == RefWalk(SubSeq(c, 1, Len(c) - 1), root)
     IN d # NULL /\ RefIsDir(d)

\* some non-final, non-empty component names no child of the directory reached so far
MissingIntermediate(path) ==
  /\ path # <<Chr.slash>>
  /\ \E i \in 1..(Len(Components(path)) - 1) :
       LET c == Components(path)
           d == RefWalk(SubSeq(c, 1, i - 1), root)
       IN /\ c[i] # <<>>
          /\ d # NULL
          /\ RefIsDir(d)
          /\ RefLookup(d, c[i]) = NULL

\* all directories of the archive, and all its entries
RECURSIVE RefDirsFrom(_, _)
RefDirsFrom(ds, n) ==
  IF n = 0 THEN ds
  ELSE RefDirsFrom(ds \cup { k \in UNION { { RefKids(d)[i] : i \in 1..RefSize(d) } : d \in ds }
                             : RefIsDir(k) }, n - 1)

RefDirs == RefDirsFrom({root}, MaxPathLen)

RefEntries == {root} \cup UNION { { RefKids(d)[i] : i \in 1..RefSize(d) } : d \in RefDirs }

\* the directory whose child array holds e; the root for the root
RefContainer(e) ==
  IF e = root THEN root
  ELSE CHOOSE d \in RefDirs : \E i \in 1..RefSize(d) : RefKids(d)[i] = e

Served == pc \in {"replied", "aborted", "crashed"}

(***************************************************************************)
(* C1: for a path whose non-final components each name a child of the      *)
(* directory reached so far, the lookup returns the entry the reference    *)
(* walk returns (first match in stored order, names compared exactly);     *)
(* get_attributes says Directory exactly for directories, and not-found    *)
(* when the final component names no child.                                *)
(***************************************************************************)
C1_ResolveMatchesReferenceWalk ==
  /\ (Served /\ reply.op = "abort" /\ reply.req \in {"getattr", "open", "opendir"})
       => ~WalkReachesFinalDir(reply.path)
  /\ (Served /\ reply.op \in {"getattr", "open"} /\ WalkReachesFinalDir(reply.path))
       => reply.entry = RefResolve(reply.path)
  /\ (Served /\ reply.op = "getattr" /\ WalkReachesFinalDir(reply.path))
       => IF RefResolve(reply.path) = NULL
            THEN reply.ret = 0 - ENOENT
            ELSE /\ reply.ret = 0
                 /\ ("S_IFDIR" \in reply.st.st_mode) = RefIsDir(RefResolve(reply.path))

\* a directory three levels down, reached past a longer name and a duplicate
C1_Witness ==
  /\ pc = "replied"
  /\ reply.op = "getattr"
  /\ Len(Components(reply.path)) = 3
  /\ WalkReachesFinalDir(reply.path)
  /\ reply.ret = 0
  /\ "S_IFDIR" \in reply.st.st_mode

(***************************************************************************)
(* C2: a path one of whose non-final components names no child of the      *)
(* directory reached so far is not found by get_attributes, open_file      *)
(* (without create) and open_directory.                                    *)
(***************************************************************************)
C2_MissingIntermediateNotFound ==
  (/\ pc = "replied"
   /\ reply.op \in {"getattr", "open", "opendir"}
   /\ reply.op = "open" => ~reply.flags.creat
   /\ MissingIntermediate(reply.path))
    => reply.ret = 0 - ENOENT

(***************************************************************************)
(* C5: the parent the lookup hands back is the directory whose child array *)
(* holds the resolved entry (the root for "/"), so an opened directory's   *)
(* handle carries the directory that contains it.                          *)
(***************************************************************************)
C5_ParentIsContainer ==
  (pc = "replied" /\ reply.op = "opendir" /\ reply.ret = 0)
    => reply.dir.parent = RefContainer(reply.dir.entry)

(***************************************************************************)
(* C10: far_children is only ever called on a directory, so no sequence of *)
(* requests ends in abort().                                               *)
(***************************************************************************)
C10_NeverAborts == pc # "aborted"


(***************************************************************************)
(* What a listing and an attribute record must be, by the format.          *)
(***************************************************************************)
\* the names a listing of directory d yields, in order
Listing(d) ==
  <<<<Chr.dot>>, <<Chr.dot, Chr.dot>>>> \o [i \in 1..RefSize(d) |-> RefName(RefKids(d)[i])]

\* the entry a handle's listing holds at a cursor
EntryAt(dir, cursor) ==
  IF cursor = 0 THEN dir.entry
  ELSE IF cursor = 1 THEN dir.parent
  ELSE RefKids(dir.entry)[cursor - 1]

\* 1 for the root, otherwise the index of the record in the entry table, plus 2
RefIno(e) ==
  IF e = root THEN 1
  ELSE (CHOOSE k \in 0..Len(far_mapping) : 20 + 16 * k = e.off) + 2

RefStat(e, st) ==
  /\ st.st_nlink = IF RefIsDir(e)
                     THEN 2 + Cardinality({ i \in 1..RefSize(e) : RefIsDir(RefKids(e)[i]) })
                     ELSE 1
  /\ st.st_size = IF RefIsDir(e) THEN RefSize(e) * 16 ELSE RefSize(e)
  /\ ("S_IFDIR" \in st.st_mode) = RefIsDir(e)
  /\ ("S_IFREG" \in st.st_mode) = ~RefIsDir(e)
  /\ st.st_mode \cap {"S_IWUSR", "S_IWGRP", "S_IWOTH"} = {}

(***************************************************************************)
(* C3: with the consumer starting at cursor 0 and resuming at the          *)
(* next-offset of the last entry the filler took, the entries taken so far *)
(* are a prefix of ".", "..", child 0, ..., child k-1; the entry at cursor *)
(* n comes with next-offset n+1; and after a call in which the filler      *)
(* never said full they are the whole sequence.                            *)
(***************************************************************************)
C3_ListingInOrder ==
  /\ fh.kind = "dir" =>
       /\ Len(session.acc) <= Len(Listing(fh.entry))
       /\ \A i \in 1..Len(session.acc) :
            /\ session.acc[i].name = Listing(fh.entry)[i]
            /\ session.acc[i].off = i
            /\ session.acc[i].st.st_ino = RefIno(EntryAt(fh, i - 1))
       /\ session.complete => Len(session.acc) = Len(Listing(fh.entry))
  /\ (pc = "replied" /\ reply.op = "readdir") =>
       \A j \in 1..Len(reply.items) :
         /\ reply.offset + j <= Len(Listing(reply.dir.entry))
         /\ reply.items[j].name = Listing(reply.dir.entry)[reply.offset + j]
         /\ reply.items[j].off = reply.offset + j

\* a directory of five children listed to the end in three or more chunks
C3_Witness ==
  /\ fh.kind = "dir"
  /\ session.complete
  /\ session.chunks >= 3
  /\ Len(session.acc) = 7

(***************************************************************************)
(* C4: reading a file of size s at offset o for n bytes: o < 0 is          *)
(* invalid-argument before the image is touched; o >= s gives 0 bytes;     *)
(* otherwise exactly min(n, s - o) bytes are copied and reported, the      *)
(* image bytes from data_offset + o on, none at or beyond data_offset + s. *)
(***************************************************************************)
C4_ReadIsClamped ==
  (Served /\ reply.op = "read" /\ ~RefIsDir(reply.entry)) =>
    IF IsNeg(reply.offset)
      THEN reply.ret = 0 - EINVAL /\ ~reply.loaded /\ ~reply.copied
    ELSE IF ~LtU(reply.offset, U64(RefSize(reply.entry)))
      THEN reply.ret = 0 /\ ~reply.copied
    ELSE LET o    == ToNat(reply.offset)
             rest == U64(RefSize(reply.entry) - o)
             want == IF LtU(reply.size, rest) THEN reply.size ELSE rest
         IN /\ pc = "replied"
            /\ reply.copied
            /\ reply.count = want
            /\ reply.ret = ToNat(want)
            /\ ~reply.oob
            /\ reply.data = SubSeq(far_mapping, RefDataOff(reply.entry) + o + 1,
                                   RefDataOff(reply.entry) + o + ToNat(want))

\* the same statement for the requests in which offset + size does not exceed the
\* range of size_t: there the clamp is as C4 says
C4_ReadIsClampedWithoutWrap ==
  (Served /\ reply.op = "read"
     /\ (IsNeg(reply.offset) \/ ~LtU(AddW(reply.offset, reply.size), reply.offset)))
    => C4_ReadIsClamped

WriteAttempt(flags) == flags.acc \in {"O_WRONLY", "O_RDWR"} \/ flags.creat

(***************************************************************************)
(* C6 as stated: every open with a write access mode or the create flag is *)
(* answered access-denied or read-only-violation and stores no handle;     *)
(* only a read-only open without create succeeds; only an open without     *)
(* create is answered not-found.                                           *)
(***************************************************************************)
C6_EveryWriteAttemptDenied ==
  (pc = "replied" /\ reply.op = "open") =>
    /\ WriteAttempt(reply.flags) =>
         reply.ret \in {0 - EACCES, 0 - EROFS} /\ reply.fh = NULL
    /\ reply.ret = 0 => ~WriteAttempt(reply.flags) /\ reply.entry # NULL
    /\ reply.ret = 0 - ENOENT => ~reply.flags.creat /\ reply.entry = NULL

(***************************************************************************)
(* C6 amended: when the lookup returns an entry, a write-only or           *)
(* read-write open is answered access-denied and stores no handle, and a   *)
(* read-only open succeeds and stores the entry, with or without the       *)
(* create flag; when the lookup returns no entry the answer is             *)
(* read-only-violation with the create flag and not-found without it,      *)
(* whatever the access mode, and no handle is stored.                      *)
(***************************************************************************)
C6_OpenOutcome ==
  (pc = "replied" /\ reply.op = "open") =>
    /\ WalkReachesFinalDir(reply.path) =>
         (reply.entry # NULL) = (RefResolve(reply.path) # NULL)
    /\ IF reply.entry # NULL
         THEN IF reply.flags.acc \in {"O_WRONLY", "O_RDWR"}
                THEN reply.ret = 0 - EACCES /\ reply.fh = NULL
                ELSE reply.ret = 0 /\ reply.fh = reply.entry /\ fh.entry = reply.entry
         ELSE /\ reply.fh = NULL
              /\ reply.ret = IF reply.flags.creat THEN 0 - EROFS ELSE 0 - ENOENT

\* a read-only open with the create flag of a path that exists, and it succeeds
C6_Witness ==
  /\ pc = "replied"
  /\ reply.op = "open"
  /\ reply.flags.creat
  /\ reply.flags.acc = "O_RDONLY"
  /\ reply.ret = 0
  /\ fh.kind = "file"

(***************************************************************************)
(* C7: inode number 1 for the root and for nothing else, record index + 2  *)
(* for every real entry, hence distinct numbers for distinct records, the  *)
(* same in get_attributes and in every position of a listing.              *)
(***************************************************************************)
C7_InodeNumbers ==
  /\ (pc = "replied" /\ reply.op = "getattr" /\ reply.ret = 0) =>
       reply.st.st_ino = RefIno(reply.entry)
  /\ (pc = "replied" /\ reply.op = "readdir") =>
       \A j \in 1..Len(reply.items) :
         reply.items[j].st.st_ino = RefIno(EntryAt(reply.dir, reply.offset + j - 1))
  /\ pc = "serving" =>
       \A e1 \in RefEntries :
         /\ (st_ino(e1) = 1) = (e1 = root)
         /\ \A e2 \in RefEntries : e1 # e2 => st_ino(e1) # st_ino(e2)

\* a listing below the root that yields ".", ".." and children
C7_Witness ==
  /\ pc = "replied"
  /\ reply.op = "readdir"
  /\ reply.dir.entry # root
  /\ reply.offset = 0
  /\ Len(reply.items) >= 4
  /\ reply.items[4].st.st_ino > 2

(***************************************************************************)
(* C8: link count 1 for a file and 2 + the number of direct child          *)
(* directories for a directory; size 16 * child count for a directory and  *)
(* the payload length for a file; the type decided by the low byte of      *)
(* flags alone; no write permission bit.                                   *)
(***************************************************************************)
C8_Attributes ==
  /\ (pc = "replied" /\ reply.op = "getattr" /\ reply.ret = 0) =>
       RefStat(reply.entry, reply.st)
  /\ (pc = "replied" /\ reply.op = "readdir") =>
       \A j \in 1..Len(reply.items) :
         RefStat(EntryAt(reply.dir, reply.offset + j - 1), reply.items[j].st)

\* a directory with children {dir, file, dir} and non-zero upper flag bytes
C8_Witness ==
  /\ pc = "replied"
  /\ reply.op = "getattr"
  /\ reply.ret = 0
  /\ reply.entry # root
  /\ far_mapping[reply.entry.off + 2] # 0
  /\ reply.st.st_nlink = 4
  /\ reply.st.st_size = 48

(***************************************************************************)
(* C9: on either byte order, once started, the accessors give the root     *)
(* type Directory, data offset 20 and the header's root entry count.       *)
(***************************************************************************)
C9_RootOnEitherHost ==
  pc \in {"serving", "replied"} =>
    /\ far_type(root) = FAR_DIR_TYPE
    /\ far_data(root) = RootdirOff
    /\ far_datasize(root) = LE32(16)

====
